---- MODULE Spec2Model ----
(***************************************************************************)
(* Model of mongodb_hash_compare.py: one run of main(), which builds a     *)
(* MongoDBHashComparer, connects to the source and destination clusters,   *)
(* collects a dbHash inventory from each, reconciles the two inventories   *)
(* into comparison rows, renders the report with its summary, closes the   *)
(* clients and maps the outcome to the process exit code.                  *)
(*                                                                         *)
(* Python dicts are functions over a finite set of string keys; the empty  *)
(* dict is the function with the empty domain.  The clusters are the       *)
(* environment: what list_database_names and dbHash answer is drawn from   *)
(* bounded sets when the command is issued.  The fields timeMillis and     *)
(* timestamp of a hash record and the two *_Time_ms columns of a row are   *)
(* carried through unchanged by the code and take no part in any decision; *)
(* they are left out of the records.                                       *)
(***************************************************************************)
EXTENDS Integers, Sequences, FiniteSets, TLC

VARIABLES
    pc,              \* position of main / run_comparison
    source_client,   \* self.source_client: "None", "open" or "closed"
    dest_client,     \* self.dest_client
    connected,       \* outcome of the two pings: "untried", "ok", "failed"
    source_dbs,      \* collect_all_hashes: databases of the source still to hash
    dest_dbs,        \* collect_all_hashes: databases of the destination still to hash
    source_hashes,   \* inventory collected from the source
    dest_hashes,     \* inventory collected from the destination
    listed,          \* per cluster, the names list_database_names answered
    attempted,       \* per cluster, the databases dbHash was issued on
    failed,          \* per cluster, the databases whose dbHash raised
    comparison_data, \* rows returned by prepare_comparison_data
    summary,         \* summary statistics computed by create_excel_report
    artifact,        \* the workbook file on disk
    save_raised,     \* wb.save raised
    invoked,         \* the methods run_comparison has called so far
    success,         \* value returned by run_comparison
    exit_code        \* argument of sys.exit; -1 while the process runs

vars == <<pc, source_client, dest_client, connected, source_dbs, dest_dbs,
          source_hashes, dest_hashes, listed, attempted, failed,
          comparison_data, summary, artifact, save_raised, invoked, success,
          exit_code>>

-----------------------------------------------------------------------------
(* Bounds of the environment *)

\* Largest number of non-system databases a cluster lists.
MaxDbs == 1

\* Non-system database names a cluster may hold.
UserDbNames == {"app", "sales"}

\* Collection names a database may hold.
CollNames == {"items", "orders"}

\* Key sets of the 'collections' mapping of a dbHash reply: a reply carries at
\* most one collection, so that two replies for one database may agree on the
\* collection name or differ in it.
CollKeySets == {K \in SUBSET CollNames : Cardinality(K) <= 1}

\* Per-collection digests a dbHash reply may carry: opaque strings.
Digests == {"a", "b", "MISSING"}

\* Aggregate digests ('md5') a dbHash reply may carry.
Md5s == {"a", "b"}

\* 'host' of the replies of each cluster.
HostOf(cluster) == IF cluster = "source" THEN "src:27017" ELSE "dst:27017"

-----------------------------------------------------------------------------
(* Python built-ins *)

\* The empty dict {}.
EmptyDict == [k \in {} |-> k]

\* bool(d) of a dict: an empty dict is falsy.
Truthy(d) == DOMAIN d # {}

\* d.get(k, default)
Get(d, k, default) == IF k \in DOMAIN d THEN d[k] ELSE default

\* d[k] = v
Put(d, k, v) == [x \in (DOMAIN d) \cup {k} |-> IF x = k THEN v ELSE d[x]]

\* Every name of the model in Python's str order (code point order).
NameOrder == <<"admin", "app", "config", "items", "local", "orders", "sales">>

\* Position of a name in Python's str order.
Rank(n) == CHOOSE i \in 1..Len(NameOrder) : NameOrder[i] = n

\* a < b on str
StrLess(a, b) == Rank(a) < Rank(b)

\* sorted(S) of a set of names: ascending list.
RECURSIVE sorted(_)
sorted(S) ==
    IF S = {} THEN <<>>
    ELSE LET m == CHOOSE x \in S : \A y \in S : x = y \/ StrLess(x, y)
         IN  <<m>> \o sorted(S \ {m})

\* The characters of the strings the report inspects.
Chars(s) ==
    CASE s = "MATCH"              -> <<"M","A","T","C","H">>
      [] s = "MISMATCH"           -> <<"M","I","S","M","A","T","C","H">>
      [] s = "MISSING"            -> <<"M","I","S","S","I","N","G">>
      [] s = "MISSING DB"         -> <<"M","I","S","S","I","N","G"," ","D","B">>
      [] s = "MISSING COLLECTION" -> <<"M","I","S","S","I","N","G"," ","C","O","L","L",
                                       "E","C","T","I","O","N">>

\* sub in s (substring test on str)
Contains(sub, s) ==
    LET a == Chars(sub)
        b == Chars(s)
    IN  \E i \in 0..(Len(b) - Len(a)) : \A j \in 1..Len(a) : b[i + j] = a[j]

-----------------------------------------------------------------------------
(* What the clusters may answer *)

\* Databases every cluster lists besides its user databases.
system_dbs == {"admin", "local", "config"}

\* All orderings of a finite set, as lists.
RECURSIVE Perms(_)
Perms(S) ==
    IF S = {} THEN {<<>>}
    ELSE UNION {{<<x>> \o p : p \in Perms(S \ {x})} : x \in S}

\* Answers of client.list_database_names(): the system databases and at most
\* MaxDbs user databases, in any order.
Listings ==
    UNION {Perms(system_dbs \cup U) :
           U \in {X \in SUBSET UserDbNames : Cardinality(X) <= MaxDbs}}

\* The 'collections' mappings a dbHash reply may carry.
CollMaps == UNION {[K -> Digests] : K \in CollKeySets}

\* Replies of db.command("dbHash") on a cluster.
DbHashReplies(cluster) ==
    [host : {HostOf(cluster)}, collections : CollMaps, md5 : Md5s]

-----------------------------------------------------------------------------
(* MongoDBHashComparer: the methods as functions of their inputs *)

\* connect_to_clusters with a failure of the destination not reported.
ConnectReturn_DestIgnored(outcome) ==
    outcome \notin {"source_client_raised", "source_ping_raised"}

\* connect_to_clusters: True only when both clients were built and both pings
\* succeeded; any exception makes it return False.
ConnectReturn(outcome) == outcome = "ok"

\* get_non_system_databases: the listing without the system databases, or []
\* when list_database_names raised.
get_non_system_databases(ok, all_dbs) ==
    IF ok THEN SelectSeq(all_dbs, LAMBDA db : db \notin system_dbs) ELSE <<>>

\* run_db_hash: the hash record of a database, or {} when the command raised.
run_db_hash(database, ok, result) ==
    IF ok
    THEN [database    |-> database,
          host        |-> Get(result, "host", "unknown"),
          collections |-> Get(result, "collections", EmptyDict),
          md5         |-> Get(result, "md5", "")]
    ELSE EmptyDict

\* The loop body without its 'if hash_result' test: a failed database is stored
\* with its empty record.
StoreHash_Unconditional(hashes, db_name, hash_result) ==
    Put(hashes, db_name, hash_result)

\* collect_all_hashes, loop body: 'if hash_result: hashes[db_name] = hash_result'
StoreHash(hashes, db_name, hash_result) ==
    IF Truthy(hash_result) THEN Put(hashes, db_name, hash_result) ELSE hashes

\* all_databases taken from the source inventory alone.
AllDatabases_SourceOnly(source_hashes_, dest_hashes_) == DOMAIN source_hashes_

\* prepare_comparison_data: set(source_hashes.keys()) | set(dest_hashes.keys())
AllDatabases(source_hashes_, dest_hashes_) ==
    (DOMAIN source_hashes_) \cup (DOMAIN dest_hashes_)

\* prepare_comparison_data: the 'Match' cell of a Database row.
DbMatch(source_info, dest_info) ==
    IF ~Truthy(source_info) \/ ~Truthy(dest_info) THEN "MISSING DB"
    ELSE IF Get(source_info, "md5", "None") = Get(dest_info, "md5", "None")
         THEN "MATCH" ELSE "MISMATCH"

\* prepare_comparison_data: db_row
DbRow(db_name, source_info, dest_info) ==
    [Type             |-> "Database",
     Database         |-> db_name,
     Collection       |-> "",
     Source_Hash      |-> Get(source_info, "md5", "MISSING"),
     Destination_Hash |-> Get(dest_info, "md5", "MISSING"),
     Match            |-> DbMatch(source_info, dest_info),
     Source_Host      |-> Get(source_info, "host", "N/A"),
     Dest_Host        |-> Get(dest_info, "host", "N/A")]

\* all_collections left empty unless both records exist.
AllCollections_BothPresent(source_info, dest_info) ==
    IF Truthy(source_info) /\ Truthy(dest_info)
    THEN (DOMAIN Get(source_info, "collections", EmptyDict))
             \cup (DOMAIN Get(dest_info, "collections", EmptyDict))
    ELSE {}

\* prepare_comparison_data: all_collections of one database.
AllCollections(source_info, dest_info) ==
    (DOMAIN Get(source_info, "collections", EmptyDict))
        \cup (DOMAIN Get(dest_info, "collections", EmptyDict))

\* prepare_comparison_data: the 'Match' cell of a Collection row.
CollMatch(source_hash, dest_hash) ==
    IF source_hash = "MISSING" \/ dest_hash = "MISSING" THEN "MISSING COLLECTION"
    ELSE IF source_hash = dest_hash THEN "MATCH" ELSE "MISMATCH"

\* prepare_comparison_data: coll_row
CollRow(db_name, coll_name, source_info, dest_info) ==
    LET source_hash == Get(Get(source_info, "collections", EmptyDict), coll_name, "MISSING")
        dest_hash   == Get(Get(dest_info, "collections", EmptyDict), coll_name, "MISSING")
    IN  [Type             |-> "Collection",
         Database         |-> db_name,
         Collection       |-> coll_name,
         Source_Hash      |-> source_hash,
         Destination_Hash |-> dest_hash,
         Match            |-> CollMatch(source_hash, dest_hash),
         Source_Host      |-> Get(source_info, "host", "N/A"),
         Dest_Host        |-> Get(dest_info, "host", "N/A")]

\* prepare_comparison_data: the rows appended in one pass of the outer loop.
RowsOfDatabase(db_name, source_hashes_, dest_hashes_) ==
    LET source_info == Get(source_hashes_, db_name, EmptyDict)
        dest_info   == Get(dest_hashes_, db_name, EmptyDict)
        colls       == sorted(AllCollections(source_info, dest_info))
    IN  <<DbRow(db_name, source_info, dest_info)>>
        \o [i \in 1..Len(colls) |-> CollRow(db_name, colls[i], source_info, dest_info)]

\* prepare_comparison_data: the outer loop over a list of database names.
RECURSIVE RowsOfDatabases(_, _, _)
RowsOfDatabases(dbs, source_hashes_, dest_hashes_) ==
    IF dbs = <<>> THEN <<>>
    ELSE RowsOfDatabase(Head(dbs), source_hashes_, dest_hashes_)
         \o RowsOfDatabases(Tail(dbs), source_hashes_, dest_hashes_)

\* prepare_comparison_data appending every Database row before any Collection row.
prepare_comparison_data_DatabasesFirst(source_hashes_, dest_hashes_) ==
    LET rows == RowsOfDatabases(sorted((DOMAIN source_hashes_) \cup (DOMAIN dest_hashes_)),
                                source_hashes_, dest_hashes_)
    IN  SelectSeq(rows, LAMBDA row : row.Type = "Database")
        \o SelectSeq(rows, LAMBDA row : row.Type = "Collection")

\* prepare_comparison_data
prepare_comparison_data(source_hashes_, dest_hashes_) ==
    RowsOfDatabases(sorted(AllDatabases(source_hashes_, dest_hashes_)),
                    source_hashes_, dest_hashes_)

\* The mismatch test written with 'MATCH', which is a substring of 'MISMATCH'.
IsMismatch_MatchSubstring(row) == Contains("MATCH", row.Match)

\* create_excel_report: 'MISMATCH' in row['Match']
IsMismatch(row) == Contains("MISMATCH", row.Match)

\* create_excel_report: 'MISSING' in row['Match']
IsMissing(row) == Contains("MISSING", row.Match)

\* create_excel_report: 'PASS' if the four counters sum to zero else 'FAIL'
OverallStatus(db_mismatches, coll_mismatches, missing_dbs, missing_colls) ==
    IF db_mismatches + coll_mismatches + missing_dbs + missing_colls = 0
    THEN "PASS" ELSE "FAIL"

\* create_excel_report: the rows of one 'Type', as positions of the list.
RowsOfLevel(rows, type) == {i \in 1..Len(rows) : rows[i].Type = type}

\* create_excel_report: the summary statistics of the rows; each counter is the
\* len() of a list comprehension over comparison_data.
Summary(rows) ==
    LET db_mismatches   == Cardinality({i \in RowsOfLevel(rows, "Database") : IsMismatch(rows[i])})
        coll_mismatches == Cardinality({i \in RowsOfLevel(rows, "Collection") : IsMismatch(rows[i])})
        missing_dbs     == Cardinality({i \in RowsOfLevel(rows, "Database") : IsMissing(rows[i])})
        missing_colls   == Cardinality({i \in RowsOfLevel(rows, "Collection") : IsMissing(rows[i])})
    IN  [total_databases   |-> Cardinality(RowsOfLevel(rows, "Database")),
         total_collections |-> Cardinality(RowsOfLevel(rows, "Collection")),
         db_mismatches     |-> db_mismatches,
         coll_mismatches   |-> coll_mismatches,
         missing_dbs       |-> missing_dbs,
         missing_colls     |-> missing_colls,
         overall_status    |-> OverallStatus(db_mismatches, coll_mismatches,
                                             missing_dbs, missing_colls)]

\* No summary has been computed.
NoSummary ==
    [total_databases |-> 0, total_collections |-> 0, db_mismatches |-> 0,
     coll_mismatches |-> 0, missing_dbs |-> 0, missing_colls |-> 0,
     overall_status |-> "NONE"]

\* No workbook has been saved.
NoArtifact == [saved |-> FALSE, rows |-> <<>>, summary |-> NoSummary]

\* create_excel_report swallowing the exception instead of raising it again.
ReportRaises_Swallowed(save_ok) == FALSE

\* create_excel_report: an exception of the body is logged and raised again.
ReportRaises(save_ok) == ~save_ok

\* The emptiness test with the second 'not' dropped.
NothingCollected_SecondNotDropped(source_hashes_, dest_hashes_) ==
    ~Truthy(source_hashes_) /\ Truthy(dest_hashes_)

\* run_comparison: 'not source_hashes and not dest_hashes'
NothingCollected(source_hashes_, dest_hashes_) ==
    ~Truthy(source_hashes_) /\ ~Truthy(dest_hashes_)

\* main: sys.exit(0) on success, sys.exit(1) otherwise.
ExitCodeOf(success_) == IF success_ THEN 0 ELSE 1

-----------------------------------------------------------------------------
(* The run *)

Init ==
    /\ pc = "main"
    /\ source_client = "None"
    /\ dest_client = "None"
    /\ connected = [source |-> "untried", dest |-> "untried"]
    /\ source_dbs = <<>>
    /\ dest_dbs = <<>>
    /\ source_hashes = EmptyDict
    /\ dest_hashes = EmptyDict
    /\ listed = [source |-> {}, dest |-> {}]
    /\ attempted = [source |-> {}, dest |-> {}]
    /\ failed = [source |-> {}, dest |-> {}]
    /\ comparison_data = <<>>
    /\ summary = NoSummary
    /\ artifact = NoArtifact
    /\ save_raised = FALSE
    /\ invoked = {}
    /\ success = FALSE
    /\ exit_code = -1

\* main, up to the call of run_comparison: a missing SOURCE_MONGODB_URI or
\* DEST_MONGODB_URI ends the process with sys.exit(1).
MainStart ==
    /\ pc = "main"
    /\ \E have_source \in BOOLEAN, have_dest \in BOOLEAN :
          IF have_source /\ have_dest
          THEN /\ pc' = "connect"
               /\ exit_code' = exit_code
          ELSE /\ pc' = "exited"
               /\ exit_code' = 1
    /\ UNCHANGED <<source_client, dest_client, connected, source_dbs, dest_dbs,
                   source_hashes, dest_hashes, listed, attempted, failed,
                   comparison_data, summary, artifact, save_raised, invoked,
                   success>>

\* run_comparison: 'if not self.connect_to_clusters(): return False'.
\* connect_to_clusters builds and pings the source client, then the destination
\* client; the first exception ends it.
ConnectToClusters ==
    /\ pc = "connect"
    /\ \E outcome \in {"source_client_raised", "source_ping_raised",
                       "dest_client_raised", "dest_ping_raised", "ok"} :
          /\ source_client' =
                IF outcome = "source_client_raised" THEN "None" ELSE "open"
          /\ dest_client' =
                IF outcome \in {"dest_ping_raised", "ok"} THEN "open" ELSE "None"
          /\ connected' =
                [source |-> IF outcome \in {"source_client_raised", "source_ping_raised"}
                            THEN "failed" ELSE "ok",
                 dest   |-> IF outcome \in {"source_client_raised", "source_ping_raised"}
                            THEN "untried"
                            ELSE IF outcome = "ok" THEN "ok" ELSE "failed"]
          /\ IF ConnectReturn(outcome)
             THEN /\ pc' = "list_source"
                  /\ success' = success
             ELSE /\ pc' = "finally"
                  /\ success' = FALSE
    /\ invoked' = invoked \cup {"connect_to_clusters"}
    /\ UNCHANGED <<source_dbs, dest_dbs, source_hashes, dest_hashes, listed,
                   attempted, failed, comparison_data, summary, artifact,
                   save_raised, exit_code>>

\* collect_all_hashes: source_dbs = self.get_non_system_databases(self.source_client)
ListSource ==
    /\ pc = "list_source"
    /\ \E ok \in BOOLEAN, all_dbs \in Listings :
          /\ source_dbs' = get_non_system_databases(ok, all_dbs)
          /\ listed' = [listed EXCEPT !.source =
                           IF ok THEN {all_dbs[i] : i \in 1..Len(all_dbs)} ELSE {}]
    /\ source_hashes' = EmptyDict
    /\ dest_hashes' = EmptyDict
    /\ invoked' = invoked \cup {"collect_all_hashes"}
    /\ pc' = "list_dest"
    /\ UNCHANGED <<source_client, dest_client, connected, dest_dbs, attempted,
                   failed, comparison_data, summary, artifact, save_raised,
                   success, exit_code>>

\* collect_all_hashes: dest_dbs = self.get_non_system_databases(self.dest_client)
ListDest ==
    /\ pc = "list_dest"
    /\ \E ok \in BOOLEAN, all_dbs \in Listings :
          /\ dest_dbs' = get_non_system_databases(ok, all_dbs)
          /\ listed' = [listed EXCEPT !.dest =
                           IF ok THEN {all_dbs[i] : i \in 1..Len(all_dbs)} ELSE {}]
    /\ pc' = "hash_source"
    /\ UNCHANGED <<source_client, dest_client, connected, source_dbs,
                   source_hashes, dest_hashes, attempted, failed,
                   comparison_data, summary, artifact, save_raised, invoked,
                   success, exit_code>>

\* collect_all_hashes: one pass of 'for db_name in source_dbs', or the end of
\* the loop.
HashSource ==
    /\ pc = "hash_source"
    /\ IF source_dbs = <<>>
       THEN /\ pc' = "hash_dest"
            /\ UNCHANGED <<source_dbs, source_hashes, attempted, failed>>
       ELSE \E ok \in BOOLEAN, result \in DbHashReplies("source") :
               LET db_name == Head(source_dbs)
               IN  /\ source_hashes' =
                         StoreHash(source_hashes, db_name,
                                   run_db_hash(db_name, ok, result))
                   /\ attempted' = [attempted EXCEPT !.source = @ \cup {db_name}]
                   /\ failed' = [failed EXCEPT !.source =
                                    IF ok THEN @ ELSE @ \cup {db_name}]
                   /\ source_dbs' = Tail(source_dbs)
                   /\ pc' = pc
    /\ UNCHANGED <<source_client, dest_client, connected, dest_dbs, dest_hashes,
                   listed, comparison_data, summary, artifact, save_raised,
                   invoked, success, exit_code>>

\* collect_all_hashes: one pass of 'for db_name in dest_dbs', or the end of the
\* loop and the return of both inventories.
HashDest ==
    /\ pc = "hash_dest"
    /\ IF dest_dbs = <<>>
       THEN /\ pc' = "collected"
            /\ UNCHANGED <<dest_dbs, dest_hashes, attempted, failed>>
       ELSE \E ok \in BOOLEAN, result \in DbHashReplies("dest") :
               LET db_name == Head(dest_dbs)
               IN  /\ dest_hashes' =
                         StoreHash(dest_hashes, db_name,
                                   run_db_hash(db_name, ok, result))
                   /\ attempted' = [attempted EXCEPT !.dest = @ \cup {db_name}]
                   /\ failed' = [failed EXCEPT !.dest =
                                    IF ok THEN @ ELSE @ \cup {db_name}]
                   /\ dest_dbs' = Tail(dest_dbs)
                   /\ pc' = pc
    /\ UNCHANGED <<source_client, dest_client, connected, source_dbs,
                   source_hashes, listed, comparison_data, summary, artifact,
                   save_raised, invoked, success, exit_code>>

\* run_comparison: 'if not source_hashes and not dest_hashes: return False'
CheckCollected ==
    /\ pc = "collected"
    /\ IF NothingCollected(source_hashes, dest_hashes)
       THEN /\ pc' = "finally"
            /\ success' = FALSE
       ELSE /\ pc' = "prepare"
            /\ success' = success
    /\ UNCHANGED <<source_client, dest_client, connected, source_dbs, dest_dbs,
                   source_hashes, dest_hashes, listed, attempted, failed,
                   comparison_data, summary, artifact, save_raised, invoked,
                   exit_code>>

\* run_comparison: comparison_data = self.prepare_comparison_data(...)
PrepareComparisonData ==
    /\ pc = "prepare"
    /\ comparison_data' = prepare_comparison_data(source_hashes, dest_hashes)
    /\ invoked' = invoked \cup {"prepare_comparison_data"}
    /\ pc' = "report"
    /\ UNCHANGED <<source_client, dest_client, connected, source_dbs, dest_dbs,
                   source_hashes, dest_hashes, listed, attempted, failed,
                   summary, artifact, save_raised, success, exit_code>>

\* run_comparison: self.create_excel_report(comparison_data, output_file), then
\* 'return True'; an exception of the report reaches 'except' and returns False.
\* The sheets are built in memory, the summary is computed from the rows, and
\* wb.save writes the file or raises.
CreateExcelReport ==
    /\ pc = "report"
    /\ summary' = Summary(comparison_data)
    /\ \E save_ok \in BOOLEAN :
          IF ReportRaises(save_ok)
          THEN /\ artifact' = artifact
               /\ save_raised' = ~save_ok
               /\ success' = FALSE
          ELSE /\ artifact' = [saved |-> save_ok, rows |-> comparison_data,
                               summary |-> summary']
               /\ save_raised' = ~save_ok
               /\ success' = TRUE
    /\ invoked' = invoked \cup {"create_excel_report"}
    /\ pc' = "finally"
    /\ UNCHANGED <<source_client, dest_client, connected, source_dbs, dest_dbs,
                   source_hashes, dest_hashes, listed, attempted, failed,
                   comparison_data, exit_code>>

\* The 'finally' block closing the source client only.
Finally_SourceOnly ==
    /\ pc = "finally"
    /\ source_client' = IF source_client = "None" THEN "None" ELSE "closed"
    /\ dest_client' = dest_client
    /\ pc' = "return"
    /\ UNCHANGED <<connected, source_dbs, dest_dbs, source_hashes, dest_hashes,
                   listed, attempted, failed, comparison_data, summary, artifact,
                   save_raised, invoked, success, exit_code>>

\* run_comparison: the 'finally' block closes every client that was created.
Finally ==
    /\ pc = "finally"
    /\ source_client' = IF source_client = "None" THEN "None" ELSE "closed"
    /\ dest_client' = IF dest_client = "None" THEN "None" ELSE "closed"
    /\ pc' = "return"
    /\ UNCHANGED <<connected, source_dbs, dest_dbs, source_hashes, dest_hashes,
                   listed, attempted, failed, comparison_data, summary, artifact,
                   save_raised, invoked, success, exit_code>>

\* main: 'if success: sys.exit(0) else: sys.exit(1)'
MainExit ==
    /\ pc = "return"
    /\ exit_code' = ExitCodeOf(success)
    /\ pc' = "exited"
    /\ UNCHANGED <<source_client, dest_client, connected, source_dbs, dest_dbs,
                   source_hashes, dest_hashes, listed, attempted, failed,
                   comparison_data, summary, artifact, save_raised, invoked,
                   success>>

Next ==
    \/ MainStart
    \/ ConnectToClusters
    \/ ListSource
    \/ ListDest
    \/ HashSource
    \/ HashDest
    \/ CheckCollected
    \/ PrepareComparisonData
    \/ CreateExcelReport
    \/ Finally
    \/ MainExit

Spec == Init /\ [][Next]_vars

-----------------------------------------------------------------------------
(* Vocabulary of the properties *)

\* prepare_comparison_data has returned.
Prepared == "prepare_comparison_data" \in invoked

\* collect_all_hashes has returned.
Collected ==
    /\ "collect_all_hashes" \in invoked
    /\ pc \in {"collected", "prepare", "report", "finally", "return", "exited"}

\* run_comparison has left its try block.
Returning == pc \in {"finally", "return", "exited"}

\* Keys of the two inventories.
SourceKeys == DOMAIN source_hashes
DestKeys == DOMAIN dest_hashes

\* Positions of the Database rows, and of the Collection rows of database d.
DbRowIdx == {i \in 1..Len(comparison_data) : comparison_data[i].Type = "Database"}
CollRowIdx(d) ==
    {i \in 1..Len(comparison_data) :
        /\ comparison_data[i].Type = "Collection"
        /\ comparison_data[i].Database = d}

\* The rows at the positions I carry pairwise different, ascending names.
AscendingDatabases(I) ==
    \A i \in I, j \in I :
        i < j => StrLess(comparison_data[i].Database, comparison_data[j].Database)
AscendingCollections(I) ==
    \A i \in I, j \in I :
        i < j => StrLess(comparison_data[i].Collection, comparison_data[j].Collection)

\* Collection names of the record of d in an inventory.
CollKeys(hashes, d) == DOMAIN hashes[d].collections

\* The Collection rows of d name exactly the collections K, each once, ascending.
CollectionRowsAre(d, K) ==
    /\ {comparison_data[i].Collection : i \in CollRowIdx(d)} = K
    /\ AscendingCollections(CollRowIdx(d))

\* A classification other than MATCH.
Divergent(row) == row.Match \in {"MISMATCH", "MISSING DB", "MISSING COLLECTION"}

-----------------------------------------------------------------------------
(* C1 *)

\* C1 as stated: for a database in both inventories the Collection rows are the
\* union of the two records' collection names, each once, ascending; for a
\* database in only one inventory no Collection row is emitted.
C1_CollectionRowsAsStated ==
    Prepared =>
        \A d \in SourceKeys \cup DestKeys :
            IF d \in SourceKeys /\ d \in DestKeys
            THEN CollectionRowsAre(d, CollKeys(source_hashes, d)
                                          \cup CollKeys(dest_hashes, d))
            ELSE CollRowIdx(d) = {}

\* C1 amended: for a database in both inventories the Collection rows are the
\* union of the two records' collection names, each once, ascending; for a
\* database in only one inventory they are the collection names of its single
\* record, each once, ascending, every one classified MISSING COLLECTION.
C1_CollectionRows ==
    Prepared =>
        \A d \in SourceKeys \cup DestKeys :
            IF d \in SourceKeys /\ d \in DestKeys
            THEN CollectionRowsAre(d, CollKeys(source_hashes, d)
                                          \cup CollKeys(dest_hashes, d))
            ELSE /\ CollectionRowsAre(d, IF d \in SourceKeys
                                         THEN CollKeys(source_hashes, d)
                                         ELSE CollKeys(dest_hashes, d))
                 /\ \A i \in CollRowIdx(d) :
                       comparison_data[i].Match = "MISSING COLLECTION"

\* A database of one inventory only, whose record holds a collection, has been
\* reconciled.
C1_Witness ==
    /\ Prepared
    /\ \E d \in SourceKeys \ DestKeys :
          /\ CollKeys(source_hashes, d) # {}
          /\ CollRowIdx(d) # {}

-----------------------------------------------------------------------------
(* C2 *)

\* C2: exit code 0 implies that an inventory was collected, that the overall
\* status is PASS and that no rendered row is MISMATCH, MISSING DB or MISSING
\* COLLECTION.
C2_ExitZeroOnlyOnPass ==
    exit_code = 0 =>
        /\ SourceKeys \cup DestKeys # {}
        /\ summary.overall_status = "PASS"
        /\ \A i \in 1..Len(artifact.rows) : ~Divergent(artifact.rows[i])

-----------------------------------------------------------------------------
(* C3 *)

\* The digest a row compares is present on the source side, on the destination
\* side.
SourcePresent(row) ==
    /\ row.Database \in SourceKeys
    /\ row.Type = "Collection" => row.Collection \in CollKeys(source_hashes, row.Database)
DestPresent(row) ==
    /\ row.Database \in DestKeys
    /\ row.Type = "Collection" => row.Collection \in CollKeys(dest_hashes, row.Database)

\* The digests a row compares; read only where they are present.
SourceDigest(row) ==
    IF row.Type = "Database" THEN source_hashes[row.Database].md5
    ELSE source_hashes[row.Database].collections[row.Collection]
DestDigest(row) ==
    IF row.Type = "Database" THEN dest_hashes[row.Database].md5
    ELSE dest_hashes[row.Database].collections[row.Collection]

\* C3: every row is MATCH iff both digests are present and equal, MISMATCH iff
\* both are present and unequal, and MISSING DB / MISSING COLLECTION iff a
\* digest is absent.
C3_Classification ==
    Prepared =>
        \A i \in 1..Len(comparison_data) :
            LET row  == comparison_data[i]
                both == SourcePresent(row) /\ DestPresent(row)
            IN  /\ row.Match = "MATCH" <=> (both /\ SourceDigest(row) = DestDigest(row))
                /\ row.Match = "MISMATCH" <=> (both /\ SourceDigest(row) # DestDigest(row))
                /\ row.Match \in {"MISSING DB", "MISSING COLLECTION"} <=> ~both

-----------------------------------------------------------------------------
(* C4 *)

\* C4: the Database rows name exactly the keys of the two inventories, each
\* once, in ascending order.
C4_DatabaseRows ==
    Prepared =>
        /\ {comparison_data[i].Database : i \in DbRowIdx} = SourceKeys \cup DestKeys
        /\ AscendingDatabases(DbRowIdx)

\* Two databases, one of each inventory only, have been reconciled.
C4_Witness ==
    /\ Prepared
    /\ Cardinality(DbRowIdx) >= 2
    /\ SourceKeys \ DestKeys # {}
    /\ DestKeys \ SourceKeys # {}

-----------------------------------------------------------------------------
(* C5 *)

\* Number of rows of a level with a classification.
RowsWith(type, match) ==
    Cardinality({i \in 1..Len(comparison_data) :
                    /\ comparison_data[i].Type = type
                    /\ comparison_data[i].Match = match})
RowsOfType(type) ==
    Cardinality({i \in 1..Len(comparison_data) : comparison_data[i].Type = type})

\* C5: the summary of a report counts the Database and Collection rows, the
\* rows of each level that are MISMATCH and that are MISSING DB / MISSING
\* COLLECTION, and its Overall Status is PASS iff no row is MISMATCH, MISSING DB
\* or MISSING COLLECTION; a saved workbook holds these rows and this summary.
C5_SummaryConsistent ==
    "create_excel_report" \in invoked =>
        /\ summary.total_databases = RowsOfType("Database")
        /\ summary.total_collections = RowsOfType("Collection")
        /\ summary.db_mismatches = RowsWith("Database", "MISMATCH")
        /\ summary.coll_mismatches = RowsWith("Collection", "MISMATCH")
        /\ summary.missing_dbs = RowsWith("Database", "MISSING DB")
        /\ summary.missing_colls = RowsWith("Collection", "MISSING COLLECTION")
        /\ summary.overall_status \in {"PASS", "FAIL"}
        /\ summary.overall_status = "PASS"
              <=> \A i \in 1..Len(comparison_data) : ~Divergent(comparison_data[i])
        /\ artifact.saved => artifact.rows = comparison_data /\ artifact.summary = summary

\* A report was made of rows that hold a mismatch and a missing collection.
C5_Witness ==
    /\ "create_excel_report" \in invoked
    /\ summary.db_mismatches + summary.coll_mismatches > 0
    /\ summary.missing_colls > 0
    /\ summary.overall_status = "FAIL"

-----------------------------------------------------------------------------
(* C6 *)

\* C6 as stated: when the source was reached and the destination was not, the
\* run is not aborted: it goes on to collect the hashes of the source.
C6_OneSideFailureNotFatal ==
    (Returning /\ connected.source = "ok" /\ connected.dest = "failed")
        => "collect_all_hashes" \in invoked

\* C6 amended: a connection failure on either cluster is fatal to the whole
\* run: nothing is collected, reconciled or rendered and the run fails.  Only a
\* cluster that was reached and whose inventory is empty is reconciled as an
\* empty side: every database of the other side is a MISSING DB row, and the
\* report is rendered.
C6_ConnectionFailureFatal ==
    /\ (connected.source = "failed" \/ connected.dest = "failed") =>
          /\ invoked = {"connect_to_clusters"}
          /\ attempted = [source |-> {}, dest |-> {}]
          /\ comparison_data = <<>>
          /\ ~artifact.saved
          /\ ~success
          /\ pc \in {"finally", "return", "exited"}
          /\ pc = "exited" => exit_code = 1
    /\ (Prepared /\ DestKeys = {}) =>
          /\ {comparison_data[i].Database : i \in DbRowIdx} = SourceKeys
          /\ \A i \in DbRowIdx : comparison_data[i].Match = "MISSING DB"
    /\ (Prepared /\ SourceKeys = {}) =>
          /\ {comparison_data[i].Database : i \in DbRowIdx} = DestKeys
          /\ \A i \in DbRowIdx : comparison_data[i].Match = "MISSING DB"
    /\ (Returning /\ Collected /\ SourceKeys \cup DestKeys # {}) =>
          /\ connected = [source |-> "ok", dest |-> "ok"]
          /\ "create_excel_report" \in invoked

\* The run ended after the source was reached and the destination was not.
C6_Witness ==
    /\ pc = "exited"
    /\ connected.source = "ok"
    /\ connected.dest = "failed"

-----------------------------------------------------------------------------
(* C7 *)

\* Inventory collected from a cluster.
HashesOf(cluster) == IF cluster = "source" THEN source_hashes ELSE dest_hashes

-----------------------------------------------------------------------------
(* C8 *)

\* C8: when both collected inventories are empty, run_comparison returns False
\* without reconciling or rendering: no workbook, no summary status, exit code 1.
C8_NothingToCompare ==
    (Returning /\ Collected /\ SourceKeys = {} /\ DestKeys = {}) =>
        /\ "prepare_comparison_data" \notin invoked
        /\ "create_excel_report" \notin invoked
        /\ comparison_data = <<>>
        /\ ~artifact.saved
        /\ summary.overall_status # "PASS"
        /\ ~success
        /\ pc = "exited" => exit_code = 1

\* The run ended after both clusters were reached and nothing was collected.
C8_Witness ==
    /\ pc = "exited"
    /\ Collected
    /\ SourceKeys = {}
    /\ DestKeys = {}

-----------------------------------------------------------------------------
(* C9 *)

\* A connection failed, nothing was collected, or the workbook save raised.
OperationalFailure ==
    \/ connected.source = "failed"
    \/ connected.dest = "failed"
    \/ (Collected /\ SourceKeys = {} /\ DestKeys = {})
    \/ save_raised

\* C9: a run with an operational failure returns False and exits non-zero, and
\* a run that exits zero has saved its workbook.
C9_FailureExitsNonZero ==
    /\ (Returning /\ OperationalFailure) =>
          /\ ~success
          /\ pc = "exited" => exit_code # 0
    /\ exit_code = 0 => artifact.saved /\ ~OperationalFailure

\* The run ended after the workbook save raised.
C9_Witness ==
    /\ pc = "exited"
    /\ save_raised

-----------------------------------------------------------------------------
(* C10 *)

\* Position of the nearest Database row before position i (0 if none).
NearestDatabaseRow(i) ==
    LET before == {j \in DbRowIdx : j < i}
    IN  IF before = {} THEN 0 ELSE CHOOSE j \in before : \A k \in before : k <= j

\* C10: every Collection row belongs to the nearest Database row before it,
\* the Collection rows between two Database rows ascend by collection name,
\* and the Database rows ascend by database name.
C10_GroupedAndOrdered ==
    Prepared =>
        /\ \A i \in 1..Len(comparison_data) :
              comparison_data[i].Type = "Collection" =>
                  /\ NearestDatabaseRow(i) > 0
                  /\ comparison_data[NearestDatabaseRow(i)].Database
                         = comparison_data[i].Database
                  /\ comparison_data[i - 1].Type = "Collection" =>
                         StrLess(comparison_data[i - 1].Collection,
                                 comparison_data[i].Collection)
        /\ AscendingDatabases(DbRowIdx)

\* Two databases were reconciled, each with a Collection row.
C10_Witness ==
    /\ Prepared
    /\ Len(comparison_data) = 4
    /\ comparison_data[1].Type = "Database"
    /\ comparison_data[2].Type = "Collection"
    /\ comparison_data[3].Type = "Database"
    /\ comparison_data[4].Type = "Collection"

-----------------------------------------------------------------------------
(* C11 *)

\* run_comparison has returned, or the process has ended.
Returned == pc \in {"return", "exited"}

\* One step keeps a client that was created, keeps a closed client closed, and
\* issues a hash command of a cluster only on its open client.
ClientStep(client, client_next, commands, commands_next) ==
    /\ client # "None" => client_next # "None"
    /\ client = "closed" => client_next = "closed"
    /\ commands_next # commands => client = "open" /\ client_next = "open"

\* C11: on every path, when run_comparison returns no client is left open; a
\* client that was created is never dropped, so it is closed by then; and no
\* hash command is issued on a client that is not open.
C11_ClientsClosed ==
    /\ [](Returned => source_client # "open" /\ dest_client # "open")
    /\ [][/\ ClientStep(source_client, source_client',
                        attempted.source, attempted'.source)
          /\ ClientStep(dest_client, dest_client',
                        attempted.dest, attempted'.dest)]_vars

\* run_comparison has returned with both clients closed after hash commands
\* were issued on each of them.
C11_Witness ==
    /\ pc = "return"
    /\ source_client = "closed"
    /\ dest_client = "closed"
    /\ attempted.source # {}
    /\ attempted.dest # {}

====
